---- MODULE Spec2Model ----
(***************************************************************************)
(* Model of the parallel dataset-quality scan of                           *)
(* src/inspection/03_check_for_false_triggers.py:                          *)
(*   process_single_image  (the Quality Evaluator),                        *)
(*   merge_issues          (the Result Merger),                            *)
(*   check_data_quality    (annotation index, work partitioning, the       *)
(*                          multiprocessing.Pool / imap loop, the return). *)
(*                                                                         *)
(* Three specifications share the variables:                               *)
(*   Spec      - one whole run of check_data_quality;                      *)
(*   SpecEval  - process_single_image applied to one Work Unit drawn from  *)
(*               a wide set of image sizes and boxes;                      *)
(*   SpecMerge - merge_issues applied to a sequence of Issue Sets and to   *)
(*               its permutations.                                         *)
(***************************************************************************)
EXTENDS Integers, Sequences, FiniteSets, TLC

VARIABLES
    data,             \* the dataset: [images: Seq, annotations: Seq]
    image_dir,        \* the directory argument of check_data_quality
    fs,               \* the files of the image directory: file name -> file
    num_workers,      \* Pool(processes=num_workers)
    pc,               \* where check_data_quality is
    i_ann,            \* annotations consumed by the indexing loop
    annotations_dict, \* image id -> sequence of annotations
    work_items,       \* the Work Units built so far
    next_task,        \* chunks handed to workers so far
    wk,               \* per worker: the chunk it holds and its progress
    done,             \* per chunk: the result message posted by a worker
    completed,        \* chunk numbers in the order workers completed them
    col_chunk,        \* imap iterator: the chunk being flattened
    col_pos,          \* imap iterator: items already yielded from that chunk
    results,          \* the list `results` of the collecting loop
    progress,         \* the progress task: total, completed, description
    evals,            \* per Work Unit: how often it was evaluated
    cancelled,        \* a KeyboardInterrupt was delivered to the run
    report            \* what check_data_quality returned, or NoReport

vars == <<data, image_dir, fs, num_workers, pc, i_ann, annotations_dict,
          work_items, next_task, wk, done, completed, col_chunk, col_pos,
          results, progress, evals, cancelled, report>>

----------------------------------------------------------------------------
(* Bounds of the model.                                                    *)

MaxImages == 3        \* image records in the dataset
MaxAnns == 2          \* annotation records in the dataset
MaxWorkers == 2       \* num_workers ranges over 1..MaxWorkers
ChunkSize == 2        \* imap chunksize (50 in the source), scaled down
MaxEvalAnns == 2      \* annotations of the Work Unit of SpecEval
MaxMerge == 3         \* Issue Sets handed to merge_issues in SpecMerge

(* Program constants.                                                      *)

MIN_WIDTH == 640          \* w < 640
MIN_HEIGHT == 480         \* h < 480
MIN_BRIGHTNESS == 50      \* brightness < 50
AREA_DIVISOR == 50        \* 0.02 = 1/50: a*b < w*h*0.02 iff a*b*50 < w*h

----------------------------------------------------------------------------
(* Helpers on sequences.                                                   *)

BSeq(S, n) == UNION {[1..k -> S] : k \in 0..n}

Range(s) == {s[k] : k \in 1..Len(s)}

Count(s, e) == Cardinality({k \in 1..Len(s) : s[k] = e})

SameBag(s, t) ==
    /\ Len(s) = Len(t)
    /\ \A e \in Range(s) \cup Range(t) : Count(s, e) = Count(t, e)

Perms(n) == {p \in [1..n -> 1..n] : \A a, b \in 1..n : a # b => p[a] # p[b]}

----------------------------------------------------------------------------
(* The inputs: the dataset, the image directory and its files.             *)

FileName(i) == <<"000001.jpg", "000002.jpg", "000003.jpg", "000004.jpg", "000005.jpg">>[i]

NoFile == [exists |-> FALSE, decodable |-> FALSE, w |-> 0, h |-> 0, brightness |-> 0]
BadFile == [exists |-> TRUE, decodable |-> FALSE, w |-> 0, h |-> 0, brightness |-> 0]
Img(w, h, b) == [exists |-> TRUE, decodable |-> TRUE, w |-> w, h |-> h, brightness |-> b]

GoodDir == "images"
NoDir == "no_such_dir"
DirExists(dir) == dir = GoodDir

ImageRecord(i, rec) == [id |-> i, file_name |-> FileName(i), width |-> rec[1], height |-> rec[2]]

Annotation(k, a) == [id |-> k, image_id |-> a.image_id, bbox |-> a.bbox, category_id |-> a.category_id]

Dataset(n, rec, anns) ==
    [images |-> [i \in 1..n |-> ImageRecord(i, rec)],
     annotations |-> [k \in 1..Len(anns) |-> Annotation(k, anns[k])]]

----------------------------------------------------------------------------
(* process_single_image: the Quality Evaluator.                            *)

path_exists(dir, file_name) == DirExists(dir) /\ fs[file_name].exists

imread(dir, file_name) == fs[file_name]

IsLowResolution_and(w, h) == w < MIN_WIDTH /\ h < MIN_HEIGHT

IsLowResolution(w, h) == w < MIN_WIDTH \/ h < MIN_HEIGHT

IsPoorLighting_le(brightness) == brightness <= MIN_BRIGHTNESS

\* brightness = gray.mean(); if brightness < 50
IsPoorLighting(brightness) == brightness < MIN_BRIGHTNESS

\* (bbox_w * bbox_h) < (w * h * 0.02); on integers the float product
\* w * h * 0.02 compares with an integer area exactly as w * h / 50 does.
IsTooSmall(bbox_w, bbox_h, w, h) == bbox_w * bbox_h * AREA_DIVISOR < w * h

\* ann['bbox'][2], ann['bbox'][3] raise IndexError on a box with fewer entries
BBoxRaises(ann) == Len(ann.bbox) < 4

Finding(img_info, ann) ==
    [image |-> img_info.file_name, bbox |-> ann.bbox, category |-> ann.category_id]

\* the loop over img_annotations: the too_small list, or the exception that
\* ends the evaluation
RECURSIVE ScanAnnotations(_, _, _, _, _)
ScanAnnotations(img_info, anns, k, w, h) ==
    IF k > Len(anns) THEN [raised |-> FALSE, too_small |-> <<>>]
    ELSE IF BBoxRaises(anns[k]) THEN [raised |-> TRUE, too_small |-> <<>>]
    ELSE LET rest == ScanAnnotations(img_info, anns, k + 1, w, h)
             here == IF IsTooSmall(anns[k].bbox[3], anns[k].bbox[4], w, h)
                     THEN <<Finding(img_info, anns[k])>> ELSE <<>>
         IN  [raised |-> rest.raised, too_small |-> here \o rest.too_small]

EmptyIssues(img_info) ==
    [low_resolution |-> <<>>, poor_lighting |-> <<>>, too_small |-> <<>>,
     image_name |-> img_info.file_name]

ImageSize_record(img_info, img) == <<img_info.width, img_info.height>>

\* h, w = img.shape[:2]: the decoded size
ImageSize(img_info, img) == <<img.w, img.h>>

LoadFailed_never(img) == FALSE

\* img = cv2.imread(img_path); if img is None
LoadFailed(img) == ~img.decodable

\* [raised |-> TRUE] when the evaluation raises, else the Issue Set returned
process_single_image(item) ==
    LET img_info == item[1]
        dir == item[2]
        img_annotations == item[3]
        issues == EmptyIssues(img_info)
    IN  IF ~path_exists(dir, img_info.file_name)
        THEN [raised |-> FALSE, value |-> issues]
        ELSE LET img == imread(dir, img_info.file_name) IN
             IF LoadFailed(img)
             THEN [raised |-> FALSE, value |-> issues]
             ELSE LET w == ImageSize(img_info, img)[1]
                      h == ImageSize(img_info, img)[2]
                      low == IF IsLowResolution(w, h)
                             THEN <<img_info.file_name>> ELSE <<>>
                      dark == IF IsPoorLighting(img.brightness)
                              THEN <<img_info.file_name>> ELSE <<>>
                      scan == ScanAnnotations(img_info, img_annotations, 1, w, h)
                  IN  IF scan.raised
                      THEN [raised |-> TRUE, value |-> issues]
                      ELSE [raised |-> FALSE,
                            value |-> [low_resolution |-> low,
                                       poor_lighting |-> dark,
                                       too_small |-> scan.too_small,
                                       image_name |-> img_info.file_name]]

----------------------------------------------------------------------------
(* merge_issues: the Result Merger.                                        *)

EmptyReport_no_occluded ==
    [low_resolution |-> <<>>, poor_lighting |-> <<>>, too_small |-> <<>>]

\* merged = {...}: the three lists and 'occluded': [], which the loop
\* never extends
EmptyReport ==
    [low_resolution |-> <<>>, poor_lighting |-> <<>>, too_small |-> <<>>,
     occluded |-> <<>>]

MergeStep_assign(merged, issue_dict) ==
    [merged EXCEPT !.low_resolution = issue_dict.low_resolution,
                   !.poor_lighting = issue_dict.poor_lighting,
                   !.too_small = issue_dict.too_small]

\* one iteration of the loop: three extend calls
MergeStep(merged, issue_dict) ==
    [merged EXCEPT !.low_resolution = @ \o issue_dict.low_resolution,
                   !.poor_lighting = @ \o issue_dict.poor_lighting,
                   !.too_small = @ \o issue_dict.too_small]

RECURSIVE MergeFrom(_, _, _)
MergeFrom(merged, all_issues, k) ==
    IF k > Len(all_issues) THEN merged
    ELSE MergeFrom(MergeStep(merged, all_issues[k]), all_issues, k + 1)

merge_issues(all_issues) == MergeFrom(EmptyReport, all_issues, 1)

----------------------------------------------------------------------------
(* check_data_quality: the state after the call is entered.                *)

NoReport == [returned |-> FALSE, issues |-> EmptyReport]

Returned(issues) == [returned |-> TRUE, issues |-> issues]

Idle == [task |-> 0, acc |-> <<>>]

Pending == [ready |-> FALSE, success |-> FALSE, value |-> <<>>]

\* events: the descriptions of the update calls made so far
NoProgress == [total |-> 0, completed |-> 0, description |-> "", events |-> <<>>]

\* the files, image sizes and boxes a run of the whole scan draws from
PipelineFiles == {NoFile, BadFile, Img(600, 500, 0)}
PipelineRecordSize == <<640, 480>>

Ann(i, b) == [image_id |-> i, bbox |-> b, category_id |-> 1]

\* a small box on the first image, a box with too few entries on the first
\* image, a small box on the third image (an image that is not in the
\* dataset when it has fewer than three images)
PipelineAnns ==
    {Ann(1, <<10, 10, 50, 50>>), Ann(1, <<10, 10>>), Ann(3, <<10, 10, 50, 50>>)}

Start(n, rec, anns, dir, files, nw) ==
    /\ data = Dataset(n, rec, anns)
    /\ image_dir = dir
    /\ fs = [f \in {FileName(i) : i \in 1..n} |->
                 files[CHOOSE i \in 1..n : FileName(i) = f]]
    /\ num_workers = nw
    /\ i_ann = 0
    /\ annotations_dict = <<>>
    /\ work_items = <<>>
    /\ next_task = 0
    /\ wk = [k \in 1..nw |-> Idle]
    /\ done = <<>>
    /\ completed = <<>>
    /\ col_chunk = 1
    /\ col_pos = 0
    /\ progress = NoProgress
    /\ evals = [u \in 1..n |-> 0]
    /\ cancelled = FALSE
    /\ report = NoReport

\* a directory that does not exist holds no file
Init ==
    \E n \in 0..MaxImages :
    \E anns \in BSeq(PipelineAnns, MaxAnns) :
    \E dir \in {GoodDir, NoDir} :
    \E files \in [1..n -> IF DirExists(dir) THEN PipelineFiles ELSE {NoFile}] :
    \E nw \in 1..MaxWorkers :
        /\ pc = "index"
        /\ results = <<>>
        /\ Start(n, PipelineRecordSize, anns, dir, files, nw)

----------------------------------------------------------------------------
(* The annotation index and the work partitioner.                          *)

IndexInsert_overwrite(dict, ann) ==
    IF ann.image_id \in DOMAIN dict
    THEN [dict EXCEPT ![ann.image_id] = <<ann>>]
    ELSE dict @@ (ann.image_id :> <<ann>>)

\* if img_id not in annotations_dict: ... = []; ...[img_id].append(ann)
IndexInsert(dict, ann) ==
    IF ann.image_id \in DOMAIN dict
    THEN [dict EXCEPT ![ann.image_id] = Append(@, ann)]
    ELSE dict @@ (ann.image_id :> <<ann>>)

\* annotations_dict.get(img_id, [])
DictGet(dict, img_id) == IF img_id \in DOMAIN dict THEN dict[img_id] ELSE <<>>

WorkItem_all(img_info, dir, dict) == <<img_info, dir, data.annotations>>

\* (img_info, image_dir, img_annotations)
WorkItem(img_info, dir, dict) == <<img_info, dir, DictGet(dict, img_info.id)>>

IndexStep ==
    /\ pc = "index"
    /\ i_ann < Len(data.annotations)
    /\ annotations_dict' = IndexInsert(annotations_dict, data.annotations[i_ann + 1])
    /\ i_ann' = i_ann + 1
    /\ UNCHANGED <<data, image_dir, fs, num_workers, pc, work_items, next_task,
                   wk, done, completed, col_chunk, col_pos, results, progress,
                   evals, cancelled, report>>

EndIndex ==
    /\ pc = "index"
    /\ i_ann = Len(data.annotations)
    /\ pc' = "partition"
    /\ UNCHANGED <<data, image_dir, fs, num_workers, i_ann, annotations_dict,
                   work_items, next_task, wk, done, completed, col_chunk,
                   col_pos, results, progress, evals, cancelled, report>>

PartitionStep ==
    /\ pc = "partition"
    /\ Len(work_items) < Len(data.images)
    /\ work_items' = Append(work_items,
           WorkItem(data.images[Len(work_items) + 1], image_dir, annotations_dict))
    /\ UNCHANGED <<data, image_dir, fs, num_workers, pc, i_ann, annotations_dict,
                   next_task, wk, done, completed, col_chunk, col_pos, results,
                   progress, evals, cancelled, report>>

----------------------------------------------------------------------------
(* The worker pool: Pool(processes=num_workers) and                        *)
(* pool.imap(process_single_image, work_items, chunksize).                 *)

Min(a, b) == IF a < b THEN a ELSE b

NumChunks(n, size) == (n + size - 1) \div size

get_tasks_overlap(n, size) ==
    [c \in 1..NumChunks(n, size) |->
        [j \in 1..(Min(c * size + 1, n) - (c - 1) * size) |-> (c - 1) * size + j]]

get_tasks_floor(n, size) ==
    [c \in 1..(n \div size) |->
        [j \in 1..size |-> (c - 1) * size + j]]

\* imap cuts the work items into consecutive chunks of chunksize items,
\* the last one shorter; each chunk is one task
get_tasks(n, size) ==
    [c \in 1..NumChunks(n, size) |->
        [j \in 1..(Min(c * size, n) - (c - 1) * size) |-> (c - 1) * size + j]]

Tasks == get_tasks(Len(work_items), ChunkSize)

Unwind_swallow(exc) == [pc |-> "returned", report |-> Returned(merge_issues(results))]

\* check_data_quality has no except clause: an exception raised inside the
\* pool block leaves the function, the pool is terminated by the with
\* statement and `return issues` is not reached
Unwind(exc) == [pc |-> exc, report |-> NoReport]

StartPool_early ==
    /\ pc = "partition"
    /\ Len(work_items) >= 1
    /\ pc' = "pool"
    /\ progress' = [total |-> Len(work_items), completed |-> 0,
                    description |-> "Starting image processing...",
                    events |-> <<>>]
    /\ done' = [c \in 1..Len(Tasks) |-> Pending]
    /\ UNCHANGED <<data, image_dir, fs, num_workers, i_ann, annotations_dict,
                   work_items, next_task, wk, completed, col_chunk, col_pos,
                   results, evals, cancelled, report>>

\* the partition loop is exhausted: the progress task is added and the Pool
\* is created
StartPool ==
    /\ pc = "partition"
    /\ Len(work_items) = Len(data.images)
    /\ pc' = "pool"
    /\ progress' = [total |-> Len(work_items), completed |-> 0,
                    description |-> "Starting image processing...",
                    events |-> <<>>]
    /\ done' = [c \in 1..Len(Tasks) |-> Pending]
    /\ UNCHANGED <<data, image_dir, fs, num_workers, i_ann, annotations_dict,
                   work_items, next_task, wk, completed, col_chunk, col_pos,
                   results, evals, cancelled, report>>

\* a worker process takes the next task from the task queue; idle workers
\* hold no state and are interchangeable, so of the idle workers the one
\* with the lowest number stands for whichever takes the task
WorkerGet(k) ==
    /\ pc = "pool"
    /\ wk[k].task = 0
    /\ \A j \in 1..(k - 1) : wk[j].task # 0
    /\ next_task < Len(Tasks)
    /\ next_task' = next_task + 1
    /\ wk' = [wk EXCEPT ![k] = [task |-> next_task + 1, acc |-> <<>>]]
    /\ UNCHANGED <<data, image_dir, fs, num_workers, pc, i_ann, annotations_dict,
                   work_items, done, completed, col_chunk, col_pos, results,
                   progress, evals, cancelled, report>>

WorkerEval_consume(k) ==
    /\ pc = "pool"
    /\ wk[k].task # 0
    /\ LET c == wk[k].task
           u == Tasks[c][Len(wk[k].acc) + 1]
           r == process_single_image(work_items[u])
           acc == Append(wk[k].acc, r.value)
       IN  /\ evals' = [evals EXCEPT ![u] = @ + 1]
           /\ work_items' = [work_items EXCEPT ![u][3] = <<>>]
           /\ IF r.raised
              THEN /\ done' = [done EXCEPT ![c] =
                                  [ready |-> TRUE, success |-> FALSE, value |-> <<>>]]
                   /\ wk' = [wk EXCEPT ![k] = Idle]
                   /\ completed' = Append(completed, c)
              ELSE IF Len(acc) = Len(Tasks[c])
              THEN /\ done' = [done EXCEPT ![c] =
                                  [ready |-> TRUE, success |-> TRUE, value |-> acc]]
                   /\ wk' = [wk EXCEPT ![k] = Idle]
                   /\ completed' = Append(completed, c)
              ELSE /\ wk' = [wk EXCEPT ![k].acc = acc]
                   /\ UNCHANGED <<done, completed>>
    /\ UNCHANGED <<data, image_dir, fs, num_workers, pc, i_ann, annotations_dict,
                   next_task, col_chunk, col_pos, results, progress,
                   cancelled, report>>

\* a worker evaluates the next Work Unit of its chunk; the chunk's result
\* message is the list of Issue Sets, or the exception that ended it
WorkerEval(k) ==
    /\ pc = "pool"
    /\ wk[k].task # 0
    /\ LET c == wk[k].task
           u == Tasks[c][Len(wk[k].acc) + 1]
           r == process_single_image(work_items[u])
           acc == Append(wk[k].acc, r.value)
       IN  /\ evals' = [evals EXCEPT ![u] = @ + 1]
           /\ IF r.raised
              THEN /\ done' = [done EXCEPT ![c] =
                                  [ready |-> TRUE, success |-> FALSE, value |-> <<>>]]
                   /\ wk' = [wk EXCEPT ![k] = Idle]
                   /\ completed' = Append(completed, c)
              ELSE IF Len(acc) = Len(Tasks[c])
              THEN /\ done' = [done EXCEPT ![c] =
                                  [ready |-> TRUE, success |-> TRUE, value |-> acc]]
                   /\ wk' = [wk EXCEPT ![k] = Idle]
                   /\ completed' = Append(completed, c)
              ELSE /\ wk' = [wk EXCEPT ![k].acc = acc]
                   /\ UNCHANGED <<done, completed>>
    /\ UNCHANGED <<data, image_dir, fs, num_workers, pc, i_ann, annotations_dict,
                   work_items, next_task, col_chunk, col_pos, results, progress,
                   cancelled, report>>

NextChunk_unordered ==
    IF col_chunk <= Len(completed) THEN completed[col_chunk]
    ELSE CHOOSE c \in DOMAIN done : ~done[c].ready

\* pool.imap (not imap_unordered): the iterator waits for the chunks in the
\* order the tasks were submitted
NextChunk == col_chunk

ProgressUpdate_findings(p, result) ==
    IF result.low_resolution = <<>> /\ result.poor_lighting = <<>> /\ result.too_small = <<>>
    THEN p
    ELSE [p EXCEPT !.completed = @ + 1,
                   !.description = result.image_name,
                   !.events = Append(@, result.image_name)]

\* progress.update(task, advance=1, description=f"... {current_img}")
ProgressUpdate(p, result) ==
    [p EXCEPT !.completed = @ + 1,
              !.description = result.image_name,
              !.events = Append(@, result.image_name)]

\* one iteration of `for i, result in enumerate(pool.imap(...))`: the next
\* item in task order, once its chunk has arrived
Collect ==
    /\ pc = "pool"
    /\ col_chunk <= Len(Tasks)
    /\ done[NextChunk].ready
    /\ done[NextChunk].success
    /\ LET result == done[NextChunk].value[col_pos + 1]
       IN  /\ results' = Append(results, result)
           /\ progress' = ProgressUpdate(progress, result)
    /\ IF col_pos + 1 = Len(done[NextChunk].value)
       THEN col_chunk' = col_chunk + 1 /\ col_pos' = 0
       ELSE col_chunk' = col_chunk /\ col_pos' = col_pos + 1
    /\ UNCHANGED <<data, image_dir, fs, num_workers, pc, i_ann, annotations_dict,
                   work_items, next_task, wk, done, completed, evals, cancelled,
                   report>>

\* the iterator re-raises, in the parent, the exception of a failed chunk
CollectRaise ==
    /\ pc = "pool"
    /\ col_chunk <= Len(Tasks)
    /\ done[NextChunk].ready
    /\ ~done[NextChunk].success
    /\ pc' = Unwind("raised").pc
    /\ report' = Unwind("raised").report
    /\ UNCHANGED <<data, image_dir, fs, num_workers, i_ann, annotations_dict,
                   work_items, next_task, wk, done, completed, col_chunk,
                   col_pos, results, progress, evals, cancelled>>

\* the loop is exhausted: issues = merge_issues(results); return issues
Return ==
    /\ pc = "pool"
    /\ col_chunk > Len(Tasks)
    /\ pc' = "returned"
    /\ report' = Returned(merge_issues(results))
    /\ UNCHANGED <<data, image_dir, fs, num_workers, i_ann, annotations_dict,
                   work_items, next_task, wk, done, completed, col_chunk,
                   col_pos, results, progress, evals, cancelled>>

\* Ctrl+C: KeyboardInterrupt is raised in check_data_quality
Interrupt ==
    /\ pc \in {"index", "partition", "pool"}
    /\ cancelled' = TRUE
    /\ pc' = Unwind("interrupted").pc
    /\ report' = Unwind("interrupted").report
    /\ UNCHANGED <<data, image_dir, fs, num_workers, i_ann, annotations_dict,
                   work_items, next_task, wk, done, completed, col_chunk,
                   col_pos, results, progress, evals>>

Next ==
    \/ IndexStep
    \/ EndIndex
    \/ PartitionStep
    \/ StartPool
    \/ \E k \in DOMAIN wk : WorkerGet(k)
    \/ \E k \in DOMAIN wk : WorkerEval(k)
    \/ Collect
    \/ CollectRaise
    \/ Return
    \/ Interrupt

Spec == Init /\ [][Next]_vars

----------------------------------------------------------------------------
(* SpecEval: process_single_image on one Work Unit.                        *)

EvalWidths == {600, 639, 640, 1000}
EvalHeights == {479, 480, 500, 1000}
EvalBrightness == {0, 49, 50, 200}
EvalFiles ==
    {NoFile, BadFile} \cup
    {Img(w, h, b) : w \in EvalWidths, h \in EvalHeights, b \in EvalBrightness}
EvalRecordSizes == {<<640, 480>>, <<1000, 1000>>}
EvalAnns ==
    {Ann(1, <<0, 0, 100, 100>>), Ann(1, <<0, 0, 100, 200>>),
     Ann(1, <<0, 0, 100, 300>>), Ann(1, <<5, 5, 60, 100>>), Ann(1, <<0, 0>>)}

EvalInit ==
    \E rec \in EvalRecordSizes :
    \E anns \in BSeq(EvalAnns, MaxEvalAnns) :
    \E dir \in {GoodDir, NoDir} :
    \E file \in (IF DirExists(dir) THEN EvalFiles ELSE {NoFile}) :
        /\ pc = "eval"
        /\ results = <<>>
        /\ Start(1, rec, anns, dir, <<file>>, 1)

EvalUnit == <<data.images[1], image_dir, data.annotations>>

Evaluate ==
    /\ pc = "eval"
    /\ work_items' = <<EvalUnit>>
    /\ evals' = [evals EXCEPT ![1] = @ + 1]
    /\ LET r == process_single_image(EvalUnit)
       IN  IF r.raised
           THEN pc' = "raised" /\ results' = results
           ELSE pc' = "evaluated" /\ results' = <<r.value>>
    /\ UNCHANGED <<data, image_dir, fs, num_workers, i_ann, annotations_dict,
                   next_task, wk, done, completed, col_chunk, col_pos, progress,
                   cancelled, report>>

EvalNext == Evaluate

SpecEval == EvalInit /\ [][EvalNext]_vars

----------------------------------------------------------------------------
(* SpecMerge: merge_issues on a sequence of Issue Sets, in any order.      *)

SmallBox(f) == [image |-> FileName(f), bbox |-> <<10, 10, 50, 50>>, category |-> 1]

MergeIssueSets ==
    {[low_resolution |-> <<FileName(1)>>, poor_lighting |-> <<>>,
      too_small |-> <<>>, image_name |-> FileName(1)],
     [low_resolution |-> <<FileName(2)>>, poor_lighting |-> <<FileName(2)>>,
      too_small |-> <<SmallBox(2)>>, image_name |-> FileName(2)],
     [low_resolution |-> <<>>, poor_lighting |-> <<>>,
      too_small |-> <<SmallBox(3), SmallBox(3)>>, image_name |-> FileName(3)],
     [low_resolution |-> <<>>, poor_lighting |-> <<>>,
      too_small |-> <<>>, image_name |-> FileName(4)]}

MergeInit ==
    \E all_issues \in BSeq(MergeIssueSets, MaxMerge) :
        /\ pc = "merge"
        /\ results = all_issues
        /\ Start(0, PipelineRecordSize, <<>>, GoodDir, <<>>, 1)

Permuted(s, p) == [k \in 1..Len(s) |-> s[p[k]]]

MergePermuted ==
    /\ pc = "merge"
    /\ \E p \in Perms(Len(results)) :
           report' = Returned(merge_issues(Permuted(results, p)))
    /\ pc' = "merged"
    /\ UNCHANGED <<data, image_dir, fs, num_workers, i_ann, annotations_dict,
                   work_items, next_task, wk, done, completed, col_chunk,
                   col_pos, results, progress, evals, cancelled>>

MergeNext == MergePermuted

SpecMerge == MergeInit /\ [][MergeNext]_vars

----------------------------------------------------------------------------
(* What the claims are stated in.                                          *)

Sections == {"low_resolution", "poor_lighting", "too_small", "occluded"}

IssueLists == {"low_resolution", "poor_lighting", "too_small"}

\* the annotations of one image, in input order, read from the dataset
RECURSIVE AnnsFrom(_, _)
AnnsFrom(img_id, k) ==
    IF k > Len(data.annotations) THEN <<>>
    ELSE (IF data.annotations[k].image_id = img_id
          THEN <<data.annotations[k]>> ELSE <<>>) \o AnnsFrom(img_id, k + 1)

AnnotationsOf(img_id) == AnnsFrom(img_id, 1)

\* the Work Unit of the i-th image, read from the dataset
UnitOf(i) == <<data.images[i], image_dir, AnnotationsOf(data.images[i].id)>>

NumImages == Len(data.images)

\* the file of a Work Unit is missing or cannot be decoded
Skipped(item) ==
    \/ ~DirExists(item[2])
    \/ ~fs[item[1].file_name].exists
    \/ ~fs[item[1].file_name].decodable

\* one process evaluating the units one after the other, in dataset order
SerialRaises == \E i \in 1..NumImages : process_single_image(UnitOf(i)).raised

SerialIssues == [i \in 1..NumImages |-> process_single_image(UnitOf(i)).value]

\* the findings of the units that are not skipped, in dataset order
RECURSIVE FindingsOfLoaded(_, _)
FindingsOfLoaded(sec, i) ==
    IF i > NumImages THEN <<>>
    ELSE (IF Skipped(UnitOf(i)) THEN <<>>
          ELSE process_single_image(UnitOf(i)).value[sec]) \o FindingsOfLoaded(sec, i + 1)

OutOfOrder(s) == \E a, b \in 1..Len(s) : a < b /\ s[a] > s[b]

HasFindings(r) == \E sec \in IssueLists : r[sec] # <<>>

----------------------------------------------------------------------------
(* C1: a run with num_workers = N returns, for every interleaving of the   *)
(* workers, a report whose sections are equal as multisets to those of the *)
(* serial run (num_workers = 1) on the same dataset and directory; the two *)
(* runs also agree on whether a report is returned at all.                 *)
C1_ParallelEqualsSerial ==
    /\ pc = "returned" =>
           /\ ~SerialRaises
           /\ \A sec \in Sections :
                  SameBag(report.issues[sec], merge_issues(SerialIssues)[sec])
    /\ pc = "raised" => SerialRaises

C1_Witness ==
    /\ pc = "returned"
    /\ num_workers > 1
    /\ OutOfOrder(completed)
    /\ HasFindings(report.issues)

----------------------------------------------------------------------------
(* C2 (as the spec states it): an exception raised while one Work Unit is  *)
(* evaluated is absorbed at that unit, so it never leaves                  *)
(* check_data_quality: the scan is never aborted by a unit's exception.    *)
C2_UnitExceptionAbsorbed == pc # "raised"

----------------------------------------------------------------------------
----------------------------------------------------------------------------
(* C4: merging the same Issue Sets in any permutation of their order gives *)
(* a report with the same multiset of entries in every section.            *)
C4_MergeOrderIndependent ==
    pc = "merged" =>
        \A sec \in Sections :
            /\ sec \in DOMAIN report.issues
            /\ SameBag(report.issues[sec], merge_issues(results)[sec])

C4_Witness ==
    /\ pc = "merged"
    /\ Len(results) = 3
    /\ report.issues # merge_issues(results)
    /\ report.issues.too_small # <<>>

----------------------------------------------------------------------------
(* C5: once the run is interrupted no further Work Unit is dispatched or   *)
(* evaluated, the run ends as interrupted and never as returned, and it    *)
(* exposes no report (so no section count above that of a completed run).  *)
C5_CancelledNeverReturns ==
    [][/\ cancelled' => (pc' = "interrupted" /\ ~report'.returned)
       /\ cancelled => (next_task' = next_task /\ evals' = evals /\ results' = results)]_vars

C5_Witness ==
    /\ cancelled
    /\ pc = "interrupted"
    /\ next_task > 0
    /\ next_task < Len(Tasks)

----------------------------------------------------------------------------
(* C6 (as the spec states it): with the image directory missing the scan   *)
(* fails at once: no Work Unit reaches a worker and no report is returned. *)
C6_MissingDirFailsFast ==
    ~DirExists(image_dir) => (next_task = 0 /\ ~report.returned)

----------------------------------------------------------------------------
(* C7 (as the spec states it): once the index is built, every Image Record *)
(* is a key of it, an image without annotations mapping to the empty       *)
(* sequence.                                                               *)
IndexBuilt == pc # "index" /\ i_ann = Len(data.annotations)

C7_EveryImageIsAKey ==
    IndexBuilt =>
        \A i \in 1..NumImages :
            /\ data.images[i].id \in DOMAIN annotations_dict
            /\ annotations_dict[data.images[i].id] = AnnotationsOf(data.images[i].id)

(* C7 (amended): once the index is built, every annotation is in exactly   *)
(* one sequence of the index, the one keyed by its image_id, once, and     *)
(* each sequence holds its annotations in input order; an Image Record     *)
(* without annotations is NOT a key of the index (no key maps to an empty  *)
(* sequence), and its Work Unit carries the empty sequence.                *)
C7_IndexGroupsAnnotations ==
    IndexBuilt =>
        /\ \A key \in DOMAIN annotations_dict :
               /\ annotations_dict[key] # <<>>
               /\ annotations_dict[key] = AnnotationsOf(key)
        /\ \A k \in 1..Len(data.annotations) :
               LET ann == data.annotations[k]
               IN  /\ ann.image_id \in DOMAIN annotations_dict
                   /\ \A key \in DOMAIN annotations_dict :
                          Count(annotations_dict[key], ann) =
                              (IF key = ann.image_id THEN 1 ELSE 0)
        /\ \A i \in 1..NumImages :
               AnnotationsOf(data.images[i].id) = <<>> =>
                   /\ data.images[i].id \notin DOMAIN annotations_dict
                   /\ i <= Len(work_items) => work_items[i][3] = <<>>

C7_Witness ==
    /\ pc = "pool"
    /\ \E key \in DOMAIN annotations_dict : Len(annotations_dict[key]) = 2
    /\ \E i \in 1..NumImages :
           /\ data.images[i].id \notin DOMAIN annotations_dict
           /\ work_items[i][3] = <<>>

----------------------------------------------------------------------------
(* C8: a report is returned only when every Work Unit has completed: each  *)
(* unit was evaluated exactly once, the collected list holds the Issue Set *)
(* of each unit, and the report is their merge.                            *)
C8_ReportIsMergeOfAllUnits ==
    report.returned =>
        /\ pc = "returned"
        /\ Len(work_items) = NumImages
        /\ Len(results) = NumImages
        /\ \A u \in 1..NumImages :
               /\ evals[u] = 1
               /\ ~process_single_image(work_items[u]).raised
               /\ results[u] = process_single_image(work_items[u]).value
        /\ \A k \in DOMAIN wk : wk[k].task = 0
        /\ \A c \in DOMAIN done : done[c].ready /\ done[c].success
        /\ report.issues = merge_issues(results)

C8_Witness ==
    /\ pc = "returned"
    /\ report.returned
    /\ NumImages = 3
    /\ Cardinality({u \in 1..NumImages : HasFindings(results[u])}) >= 2

----------------------------------------------------------------------------
(* C9: a loadable image of decoded size (w, h) is in low_resolution once   *)
(* when w < 640 or h < 480 and not at all otherwise: 600 x 500 is flagged, *)
(* 640 x 480 is not.                                                       *)
EvalFile == fs[data.images[1].file_name]

EvalLoaded == pc = "evaluated" /\ DirExists(image_dir) /\ EvalFile.exists /\ EvalFile.decodable

C9_LowResolution ==
    EvalLoaded =>
        /\ results[1].low_resolution =
               (IF EvalFile.w < 640 \/ EvalFile.h < 480
                THEN <<data.images[1].file_name>> ELSE <<>>)
        /\ (EvalFile.w = 600 /\ EvalFile.h = 500) =>
               Count(results[1].low_resolution, data.images[1].file_name) = 1
        /\ (EvalFile.w = 640 /\ EvalFile.h = 480) => results[1].low_resolution = <<>>

C9_Witness ==
    /\ EvalLoaded
    /\ EvalFile.w = 600 /\ EvalFile.h = 500
    /\ results[1].low_resolution = <<data.images[1].file_name>>

----------------------------------------------------------------------------
(* C10: for a loadable image of decoded size (w, h) the too_small list     *)
(* holds, in annotation order, one finding {image, bbox, category} for     *)
(* each annotation with bbox width * height < 2% of w * h (strict), and    *)
(* nothing else; the size is the decoded one, not the Image Record's. On   *)
(* 1000 x 1000, area 10,000 is flagged, areas 20,000 and 30,000 are not.   *)
RECURSIVE ExpectedTooSmall(_)
ExpectedTooSmall(k) ==
    IF k > Len(data.annotations) THEN <<>>
    ELSE LET ann == data.annotations[k]
         IN  (IF ann.bbox[3] * ann.bbox[4] * 100 < EvalFile.w * EvalFile.h * 2
              THEN <<[image |-> data.images[1].file_name, bbox |-> ann.bbox,
                      category |-> ann.category_id]>>
              ELSE <<>>) \o ExpectedTooSmall(k + 1)

FlaggedBox(b) == \E k \in 1..Len(results[1].too_small) : results[1].too_small[k].bbox = b

C10_TooSmall ==
    EvalLoaded =>
        /\ results[1].too_small = ExpectedTooSmall(1)
        /\ (EvalFile.w = 1000 /\ EvalFile.h = 1000) =>
               \A k \in 1..Len(data.annotations) :
                   LET b == data.annotations[k].bbox
                   IN  /\ b[3] * b[4] = 10000 => FlaggedBox(b)
                       /\ b[3] * b[4] = 20000 => ~FlaggedBox(b)
                       /\ b[3] * b[4] = 30000 => ~FlaggedBox(b)

C10_Witness ==
    /\ EvalLoaded
    /\ EvalFile.w = 1000 /\ EvalFile.h = 1000
    /\ data.images[1].width = 640
    /\ Len(data.annotations) = 2
    /\ data.annotations[1].bbox = <<0, 0, 100, 200>>
    /\ data.annotations[2].bbox = <<0, 0, 100, 100>>
    /\ Len(results[1].too_small) = 1
    /\ results[1].too_small[1].bbox = <<0, 0, 100, 100>>

----------------------------------------------------------------------------
(* C11: a loadable image is in poor_lighting once when its mean luminance  *)
(* is below 50 (strict) and not at all otherwise: mean 0 is flagged, mean  *)
(* 50 is not; the flag does not depend on the size, so a dark image of low *)
(* resolution is in both sections.                                         *)
C11_PoorLighting ==
    EvalLoaded =>
        /\ results[1].poor_lighting =
               (IF EvalFile.brightness < 50
                THEN <<data.images[1].file_name>> ELSE <<>>)
        /\ EvalFile.brightness = 0 =>
               Count(results[1].poor_lighting, data.images[1].file_name) = 1
        /\ EvalFile.brightness = 50 => results[1].poor_lighting = <<>>
        /\ (EvalFile.brightness = 0 /\ EvalFile.w = 600) =>
               /\ results[1].poor_lighting = <<data.images[1].file_name>>
               /\ results[1].low_resolution = <<data.images[1].file_name>>

C11_Witness ==
    /\ EvalLoaded
    /\ EvalFile.brightness = 0
    /\ EvalFile.w = 600 /\ EvalFile.h = 500
    /\ results[1].poor_lighting = <<data.images[1].file_name>>
    /\ results[1].low_resolution = <<data.images[1].file_name>>

----------------------------------------------------------------------------
(* C12: the progress total is the number of Work Units from before the     *)
(* first dispatch on; each collected unit, skipped or not, adds exactly    *)
(* one event carrying its file name; the count never decreases, never      *)
(* exceeds the total and equals it when the scan returns.                  *)
ProgressConsistent ==
    /\ (next_task > 0 \/ \E u \in DOMAIN evals : evals[u] > 0) =>
           /\ progress.total = NumImages
           /\ progress.total = Len(work_items)
    /\ progress.completed = Len(results)
    /\ progress.completed = Len(progress.events)
    /\ progress.completed <= progress.total
    /\ \A k \in 1..Len(progress.events) :
           progress.events[k] = results[k].image_name
    /\ pc = "returned" =>
           /\ progress.completed = progress.total
           /\ \A u \in 1..NumImages :
                  Count(progress.events, data.images[u].file_name) = 1

C12_ProgressCounts ==
    [][ProgressConsistent' /\ progress'.completed >= progress.completed]_vars

C12_Witness ==
    /\ pc = "returned"
    /\ progress.total = 3
    /\ progress.completed = 3
    /\ \E u \in 1..NumImages :
           /\ Skipped(work_items[u])
           /\ Count(progress.events, work_items[u][1].file_name) = 1
    /\ \E u \in 1..NumImages : ~Skipped(work_items[u])

----------------------------------------------------------------------------
(* C13: whatever Issue Sets are merged, in whatever order, the report has  *)
(* exactly the four sections and its section occluded is empty.            *)
C13_OccludedAlwaysEmpty ==
    pc = "merged" =>
        /\ DOMAIN report.issues = Sections
        /\ report.issues.occluded = <<>>
        /\ merge_issues(results).occluded = <<>>

C13_Witness ==
    /\ pc = "merged"
    /\ Len(results) = 3
    /\ report.issues.low_resolution # <<>>
    /\ report.issues.poor_lighting # <<>>
    /\ Len(report.issues.too_small) = 3
    /\ report.issues.occluded = <<>>

----------------------------------------------------------------------------
(* C14: the work items are one per Image Record, in the order of the image *)
(* list; each carries its Image Record, the directory and exactly the      *)
(* annotations whose image_id is the image's id, in input order (none when *)
(* there are none); an annotation of no image of the dataset is in no      *)
(* Work Unit.                                                              *)
ImageIds == {data.images[i].id : i \in 1..NumImages}

C14_OneUnitPerImage ==
    /\ Len(work_items) <= NumImages
    /\ pc \in {"pool", "returned", "raised"} => Len(work_items) = NumImages
    /\ pc \in {"index", "partition", "pool", "returned", "raised", "interrupted"} =>
           /\ \A i \in 1..Len(work_items) :
                  /\ work_items[i][1] = data.images[i]
                  /\ work_items[i][2] = image_dir
                  /\ work_items[i][3] = AnnotationsOf(data.images[i].id)
           /\ \A k \in 1..Len(data.annotations) :
                  data.annotations[k].image_id \notin ImageIds =>
                      \A i \in 1..Len(work_items) :
                          Count(work_items[i][3], data.annotations[k]) = 0

C14_Witness ==
    /\ pc = "pool"
    /\ NumImages = 2
    /\ Len(work_items) = 2
    /\ Len(work_items[1][3]) = 1
    /\ work_items[2][3] = <<>>
    /\ \E k \in 1..Len(data.annotations) : data.annotations[k].image_id \notin ImageIds

----------------------------------------------------------------------------
(* C15: the stages do not overlap: a Work Unit is built only when the last *)
(* annotation is in the index, and a Work Unit reaches a worker only when  *)
(* the last Work Unit is built.                                            *)
Dispatched == next_task > 0 \/ \E u \in DOMAIN evals : evals[u] > 0

C15_StagesOrdered ==
    pc \in {"index", "partition", "pool", "returned", "raised", "interrupted"} =>
        /\ Len(work_items) > 0 => i_ann = Len(data.annotations)
        /\ i_ann < Len(data.annotations) => (work_items = <<>> /\ ~Dispatched)
        /\ Dispatched =>
               /\ Len(work_items) = NumImages
               /\ i_ann = Len(data.annotations)
        /\ Len(work_items) < NumImages =>
               /\ ~Dispatched
               /\ \A k \in DOMAIN wk : wk[k] = Idle
               /\ results = <<>>

C15_Witness ==
    /\ pc = "pool"
    /\ next_task = 1
    /\ \A c \in DOMAIN done : ~done[c].ready
    /\ NumImages = 3
    /\ Len(work_items) = 3
    /\ Len(data.annotations) = 2
    /\ i_ann = 2

----------------------------------------------------------------------------
(* C16: while the pool runs, no step writes the dataset, the image         *)
(* directory, the annotation index or a Work Unit; a step changes the      *)
(* state of at most one worker, and a result a worker has posted is never  *)
(* changed afterwards.                                                     *)
C16_ParallelPhaseReadsOnly ==
    [][pc = "pool" =>
           /\ data' = data
           /\ image_dir' = image_dir
           /\ fs' = fs
           /\ annotations_dict' = annotations_dict
           /\ work_items' = work_items
           /\ Cardinality({k \in DOMAIN wk : wk'[k] # wk[k]}) <= 1
           /\ \A c \in DOMAIN done : done[c].ready => done'[c] = done[c]]_vars

C16_Witness ==
    /\ pc = "pool"
    /\ num_workers = 2
    /\ wk[1].task # 0 /\ wk[2].task # 0
    /\ \E u \in 1..Len(work_items) : evals[u] > 0 /\ work_items[u][3] # <<>>
    /\ work_items = [i \in 1..NumImages |-> UnitOf(i)]

----------------------------------------------------------------------------
(* C17: results are collected in Work Unit order whatever the order in     *)
(* which the workers finish: the k-th result and the k-th progress event   *)
(* belong to the k-th image, and each section of the returned report lists *)
(* its entries in image order and, within an image, in annotation order.   *)
Loaded(i) ==
    /\ DirExists(image_dir)
    /\ fs[data.images[i].file_name].exists
    /\ fs[data.images[i].file_name].decodable

RECURSIVE SmallBoxesOf(_, _)
SmallBoxesOf(i, k) ==
    IF k > Len(data.annotations) THEN <<>>
    ELSE LET ann == data.annotations[k]
             f == fs[data.images[i].file_name]
         IN  (IF /\ ann.image_id = data.images[i].id
                 /\ ann.bbox[3] * ann.bbox[4] * 100 < f.w * f.h * 2
              THEN <<[image |-> data.images[i].file_name, bbox |-> ann.bbox,
                      category |-> ann.category_id]>>
              ELSE <<>>) \o SmallBoxesOf(i, k + 1)

EntriesOf(sec, i) ==
    LET f == fs[data.images[i].file_name]
        name == <<data.images[i].file_name>>
    IN  IF ~Loaded(i) THEN <<>>
        ELSE IF sec = "low_resolution"
             THEN (IF f.w < 640 \/ f.h < 480 THEN name ELSE <<>>)
        ELSE IF sec = "poor_lighting"
             THEN (IF f.brightness < 50 THEN name ELSE <<>>)
        ELSE SmallBoxesOf(i, 1)

RECURSIVE InImageOrder(_, _)
InImageOrder(sec, i) ==
    IF i > NumImages THEN <<>>
    ELSE EntriesOf(sec, i) \o InImageOrder(sec, i + 1)

C17_ReportInDatasetOrder ==
    pc \in {"pool", "returned", "raised", "interrupted"} =>
        /\ \A k \in 1..Len(results) :
               results[k].image_name = data.images[k].file_name
        /\ \A k \in 1..Len(progress.events) :
               progress.events[k] = data.images[k].file_name
        /\ pc = "returned" =>
               \A sec \in IssueLists : report.issues[sec] = InImageOrder(sec, 1)

C17_Witness ==
    /\ pc = "returned"
    /\ num_workers > 1
    /\ OutOfOrder(completed)
    /\ report.issues.low_resolution = <<FileName(1), FileName(3)>>
    /\ Len(report.issues.too_small) = 2
    /\ report.issues.too_small[1].image = FileName(1)
    /\ report.issues.too_small[2].image = FileName(3)
    /\ progress.events = <<FileName(1), FileName(2), FileName(3)>>

====
